---- MODULE Spec2Model ----
(***************************************************************************)
(* check_scmd.py: a monitoring probe for the SCMD SOAP service.            *)
(*                                                                         *)
(* One run of the script is modelled as a state machine over the program   *)
(* positions of the main thread.  Wall-clock time is an integer number of  *)
(* ticks; a tick is 1/SubTicks of the unit that round(x, 5) keeps, so that *)
(* rounding is not the identity.  The SIGALRM handler is an action that    *)
(* preempts the step during which the deadline is reached.                 *)
(*                                                                         *)
(* The messages of the source are written here without their diacritics    *)
(* ("Certificacao", "Impossivel"): strings that are part of a state must   *)
(* be ASCII.                                                               *)
(*                                                                         *)
(* Not modelled: debug() (it only configures logging), get_wsdl (the       *)
(* endpoint does not influence control flow), a wall clock that steps      *)
(* backwards, and a signal delivered during interpreter shutdown.          *)
(***************************************************************************)
EXTENDS Integers, Sequences, FiniteSets, TLC

(* ------------------------------ constants ------------------------------ *)

\* signal.alarm(args.timeout+5): the slack added to the client timeout.
Slack == 5

\* round(time.time() - init_time, 5): decimal digits kept.
Digits == 5

\* Resolution of the modelled wall clock: ticks per rounding unit.
SubTicks == 2

\* Largest value of -t/--timeout drawn; the smallest one is 1.
MaxTimeout == 6

\* Thresholds -w/-c are drawn from 1..MaxThreshold (in any order).
MaxThreshold == 2

\* Longest certificate bundle drawn.
MaxBlocks == 4

RECURSIVE Pow10(_)
Pow10(n) == IF n = 0 THEN 1 ELSE 10 * Pow10(n - 1)

\* Rounding units per second (10^5) and ticks per second.
UnitsPerSecond == Pow10(Digits)
TPS == UnitsPerSecond * SubTicks

\* Python's None where a string is expected, no pending exception, no time.
None == "<None>"
NoExc == [cls |-> "", name |-> "", desc |-> ""]
NoTime == 0 - 1

(* ------------------------------ inputs --------------------------------- *)

Timeouts == {1, MaxTimeout}
Thresholds == 1..MaxThreshold

\* The command lines: valid ones, and one that argparse rejects (-u missing).
Argvs ==
  [timeout : Timeouts, warning : Thresholds, critical : Thresholds, ok : {TRUE}]
    \cup {[timeout |-> 1, warning |-> 1, critical |-> 1, ok |-> FALSE]}

CNs == <<"Jane Doe", "ROOT CA", "ISSUING CA">>

\* A PEM block as pem.parse returns it: loadable or not by
\* crypto.load_certificate, and the CN of its subject (None when absent).
Cert(cn) == [loadable |-> TRUE, cn |-> cn]
BadBlock == [loadable |-> FALSE, cn |-> None]

Canon(n) == [i \in 1..n |-> Cert(CNs[((i - 1) % 3) + 1])]

Bundles ==
  {[i \in 1..3 |-> Cert(CNs[p[i]])] : p \in Permutations(1..3)}
    \cup {Canon(n) : n \in 0..MaxBlocks}
    \cup {[Canon(3) EXCEPT ![i] = BadBlock] : i \in 1..3}
    \cup {[Canon(3) EXCEPT ![i] = Cert(None)] : i \in 1..3}

\* What client.service.GetCertificate may return: None, or a bundle string.
NoResult == [none |-> TRUE, pem |-> <<>>]
Results == {NoResult} \cup {[none |-> FALSE, pem |-> b] : b \in Bundles}

\* Durations of the steps that are not network operations.
StepDurs == {0, 1, SubTicks}
ShortDurs == {0, 1}

\* Durations of a network operation that returns within the client timeout.
NetDurs(T) == {s * TPS : s \in {x \in {0, 1, Slack} : x < T}} \cup {T * TPS - 1}

ConnectionError ==
  [cls |-> "requests.exceptions.ConnectionError", name |-> "ConnectionError",
   desc |-> "connection refused"]
ReadTimeout ==
  [cls |-> "requests.exceptions.ReadTimeout", name |-> "ReadTimeout",
   desc |-> "Read timed out."]
IndexError ==
  [cls |-> "IndexError", name |-> "IndexError",
   desc |-> "list index out of range"]
CryptoError ==
  [cls |-> "OpenSSL.crypto.Error", name |-> "Error", desc |-> "bad base64 decode"]
TypeError ==
  [cls |-> "TypeError", name |-> "TypeError",
   desc |-> "can only concatenate str (not \"NoneType\") to str"]

\* The ways a network operation started at t ends by itself: it returns, it
\* fails at once, or the transport's own timeout (Transport(timeout=T))
\* raises after T seconds.  It may also never end (no outcome here).
NetOutcomes(t, T) ==
  {[kind |-> "return", end |-> t + d, exc |-> NoExc] : d \in NetDurs(T)}
    \cup {[kind |-> "raise", end |-> t, exc |-> ConnectionError]}
    \cup {[kind |-> "raise", end |-> t + T * TPS, exc |-> ReadTimeout]}

(* ------------------------------ state ---------------------------------- *)

VARIABLES
  pc,           \* position of the main thread
  argv,         \* the command line
  now,          \* wall clock, in ticks
  init_time,    \* main(): init
  deadline,     \* tick at which SIGALRM is due, NoTime when no alarm is armed
  result,       \* return value of args.func(client, args)
  exc,          \* the exception being handled by the bare except
  out,          \* arguments of the output() call in progress
  printed,      \* lines written to stdout, in order
  exitCode,     \* exit status of the process, NoTime while it runs
  alarmAt,      \* position at which handle_sigalrm ran, "" if it did not
  fetchStart,   \* tick at which GetCertificate was called
  fetchEnd,     \* tick at which GetCertificate returned
  parsed,       \* tick at which check() had loaded the three certificates
  mainAt        \* tick at which main() was entered

vars == <<pc, argv, now, init_time, deadline, result, exc, out, printed,
          exitCode, alarmAt, fetchStart, fetchEnd, parsed, mainAt>>

NoOut == [label |-> "", state |-> 0, lines |-> <<>>, perfdata |-> <<>>,
          site |-> ""]

Init ==
  /\ pc = "main"
  /\ argv \in Argvs
  /\ now = 0
  /\ init_time = NoTime
  /\ deadline = NoTime
  /\ result = NoResult
  /\ exc = NoExc
  /\ out = NoOut
  /\ printed = <<>>
  /\ exitCode = NoTime
  /\ alarmAt = ""
  /\ fetchStart = NoTime
  /\ fetchEnd = NoTime
  /\ parsed = NoTime
  /\ mainAt = NoTime

(* --------------------------- pure functions ---------------------------- *)

\* round(x, 5) of an elapsed time of t ticks, in rounding units.  A value
\* half-way between two units goes either way: the result depends on the
\* binary representation of the float.
Round5(t) ==
  LET q == t \div SubTicks
      r == t % SubTicks
  IN  IF 2 * r < SubTicks THEN {q}
      ELSE IF 2 * r > SubTicks THEN {q + 1}
      ELSE {q, q + 1}

\* Evaluate with a threshold reached counted as a breach.
Evaluate_nonstrict(time_seconds, warning, critical) ==
  IF time_seconds >= critical * UnitsPerSecond THEN 2
  ELSE IF time_seconds >= warning * UnitsPerSecond THEN 1
  ELSE 0

\* The thresholds of check(): strict comparisons, critical first.
\* time_seconds is in rounding units, the thresholds in seconds.
Evaluate(time_seconds, warning, critical) ==
  IF time_seconds > critical * UnitsPerSecond THEN 2
  ELSE IF time_seconds > warning * UnitsPerSecond THEN 1
  ELSE 0

\* The decimal digits of n, left-padded with zeros to width w.
RECURSIVE Pad(_, _)
Pad(n, w) == IF w = 0 THEN "" ELSE Pad(n \div 10, w - 1) \o ToString(n % 10)

\* A digit string without its trailing zeros.
RECURSIVE Strip(_)
Strip(s) ==
  IF Len(s) > 0 /\ SubSeq(s, Len(s), Len(s)) = "0"
  THEN Strip(SubSeq(s, 1, Len(s) - 1))
  ELSE s

\* str() of the float that holds u rounding units: the shortest repr, with
\* an exponent below 1e-4.
StrFloat(u) ==
  LET frac == Strip(Pad(u % UnitsPerSecond, Digits))
  IN  IF 0 < u /\ u < 10 THEN ToString(u) \o "e-0" \o ToString(Digits)
      ELSE ToString(u \div UnitsPerSecond) \o "."
             \o (IF frac = "" THEN "0" ELSE frac)

\* ' '.join(words)
RECURSIVE Join(_)
Join(words) ==
  IF words = <<>> THEN ""
  ELSE IF Len(words) = 1 THEN words[1]
  ELSE words[1] \o " " \o Join(Tail(words))

\* output(): the name of a status level.
LevelName(state) ==
  CASE state = 0 -> "OK"
    [] state = 1 -> "WARNING"
    [] state = 2 -> "CRITICAL"
    [] state = 3 -> "UNKNOWN"

\* PerfBlock without the test "if perfdata:".
PerfBlock_always(perfdata) ==
  "|" \o Join([i \in 1..Len(perfdata) |->
                 "'" \o perfdata[i].key \o "'=" \o StrFloat(perfdata[i].value)])

\* output(): the performance block, empty for an empty mapping.
PerfBlock(perfdata) ==
  IF Len(perfdata) > 0
  THEN "|" \o Join([i \in 1..Len(perfdata) |->
                      "'" \o perfdata[i].key \o "'=" \o StrFloat(perfdata[i].value)])
  ELSE ""

\* output(): the line printed for (label, state, lines, perfdata, name).
PluginOutput(label, state, lines, perfdata, name) ==
  LevelName(state) \o " - " \o name \o ": " \o label
    \o (IF Len(lines) > 0 THEN " - " \o Join(lines) ELSE "")
    \o PerfBlock(perfdata)

\* str(sys.exc_info()); the address of the traceback object is left out.
ExcInfo(e) ==
  "(<class '" \o e.cls \o "'>, " \o e.name \o "('" \o e.desc
    \o "'), <traceback object>)"

\* check(): the exception raised while the dictionary certs_chain is built
\* (user = certs[0], then ca = certs[2], then root = certs[1]), NoExc if none.
LoadError(certs) ==
  IF Len(certs) < 1 THEN IndexError
  ELSE IF ~certs[1].loadable THEN CryptoError
  ELSE IF Len(certs) < 3 THEN IndexError
  ELSE IF ~certs[3].loadable THEN CryptoError
  ELSE IF ~certs[2].loadable THEN CryptoError
  ELSE NoExc

\* check(): certs_chain.
CertsChain(certs) == [user |-> certs[1], ca |-> certs[3], root |-> certs[2]]

\* SuccessLabel with the certification authority and the root exchanged.
SuccessLabel_swapped(chain) ==
  "Certificado emitido para \"" \o chain.user.cn
    \o "\" pela Entidade de Certificacao \"" \o chain.root.cn
    \o "\" na hierarquia do \"" \o chain.ca.cn \o "\""

\* check(): the label of the success report.
SuccessLabel(chain) ==
  "Certificado emitido para \"" \o chain.user.cn
    \o "\" pela Entidade de Certificacao \"" \o chain.ca.cn
    \o "\" na hierarquia do \"" \o chain.root.cn \o "\""

\* check(): concatenating a missing CN (None) to a str raises TypeError.
LabelError(chain) ==
  IF None \in {chain.user.cn, chain.ca.cn, chain.root.cn} THEN TypeError
  ELSE NoExc

(* ------------------------------ actions -------------------------------- *)

\* A step that would end at tick t runs to its end: no alarm is armed, the
\* one-shot alarm has been delivered already, or the deadline comes later.
Completes(t) == deadline = NoTime \/ alarmAt # "" \/ t < deadline

\* The main thread is inside the try block of the __main__ section.
InTry ==
  \/ pc \in {"getclient", "getcertificate", "check"}
  \/ pc \in {"output", "sys_exit"} /\ out.site # "error"

\* A line on stdout, with the arguments of the output() call that wrote it.
Line(o) ==
  [text |-> PluginOutput(o.label, o.state, o.lines, o.perfdata, "scmd"),
   state |-> o.state, perfdata |-> o.perfdata, site |-> o.site]

\* main(): init = time.time()
Main_time ==
  /\ pc = "main"
  /\ init_time' = now
  /\ mainAt' = now
  /\ pc' = "args_parse"
  /\ UNCHANGED <<argv, now, deadline, result, exc, out, printed, exitCode,
                 alarmAt, fetchStart, fetchEnd, parsed>>

\* Args_parse with the start time captured after the arguments are parsed.
Args_parse_late_init ==
  /\ pc = "args_parse"
  /\ \E d \in StepDurs : now' = now + d
  /\ init_time' = now'
  /\ pc' = IF argv.ok THEN "signal" ELSE "except_SystemExit"
  /\ UNCHANGED <<argv, deadline, result, exc, out, printed,
                 exitCode, alarmAt, fetchStart, fetchEnd, parsed, mainAt>>

\* main(): args = args_parse().  A command line that argparse rejects makes
\* it call sys.exit(2), which the __main__ section catches.
Args_parse ==
  /\ pc = "args_parse"
  /\ \E d \in StepDurs : now' = now + d
  /\ pc' = IF argv.ok THEN "signal" ELSE "except_SystemExit"
  /\ UNCHANGED <<argv, init_time, deadline, result, exc, out, printed,
                 exitCode, alarmAt, fetchStart, fetchEnd, parsed, mainAt>>

\* main(): signal.signal(SIGALRM, ...); signal.alarm(args.timeout+5)
Signal_alarm ==
  /\ pc = "signal"
  /\ deadline' = now + (argv.timeout + Slack) * TPS
  /\ pc' = "getclient"
  /\ UNCHANGED <<argv, now, init_time, result, exc, out, printed, exitCode,
                 alarmAt, fetchStart, fetchEnd, parsed, mainAt>>

\* main(): client = getclient(args.prod, args.timeout), which retrieves the
\* WSDL with the transport's timeout.
Getclient ==
  /\ pc = "getclient"
  /\ \E o \in NetOutcomes(now, argv.timeout) :
       /\ Completes(o.end)
       /\ now' = o.end
       /\ exc' = o.exc
       /\ IF o.kind = "return"
          THEN pc' = "getcertificate" /\ fetchStart' = o.end
          ELSE pc' = "except" /\ fetchStart' = fetchStart
  /\ UNCHANGED <<argv, init_time, deadline, result, out, printed, exitCode,
                 alarmAt, fetchEnd, parsed, mainAt>>

\* main(): args.func(client, args), that is getcertificate(client, args).
Getcertificate ==
  /\ pc = "getcertificate"
  /\ \E o \in NetOutcomes(now, argv.timeout) :
       /\ Completes(o.end)
       /\ now' = o.end
       /\ exc' = o.exc
       /\ \/ /\ o.kind = "return"
             /\ result' \in Results
             /\ fetchEnd' = o.end
             /\ pc' = "check"
          \/ /\ o.kind = "raise"
             /\ pc' = "except"
             /\ UNCHANGED <<result, fetchEnd>>
  /\ UNCHANGED <<argv, init_time, deadline, out, printed, exitCode, alarmAt,
                 fetchStart, parsed, mainAt>>

\* check(result, init, args.warning, args.critical), up to its call of output.
Check ==
  /\ pc = "check"
  /\ \/ /\ result.none
        /\ out' = [label |-> "Impossivel obter certificado", state |-> 2,
                   lines |-> <<>>, perfdata |-> <<>>, site |-> "empty"]
        /\ pc' = "output"
        /\ UNCHANGED <<now, exc, parsed>>
     \/ /\ ~result.none
        /\ LoadError(result.pem) # NoExc
        /\ \E d \in StepDurs : Completes(now + d) /\ now' = now + d
        /\ exc' = LoadError(result.pem)
        /\ pc' = "except"
        /\ UNCHANGED <<out, parsed>>
     \/ /\ ~result.none
        /\ LoadError(result.pem) = NoExc
        /\ \E d \in StepDurs :
             /\ Completes(now + d)
             /\ now' = now + d
             /\ parsed' = now + d
             /\ \E time_seconds \in Round5(now + d - init_time) :
                  LET chain == CertsChain(result.pem)
                      status == Evaluate(time_seconds, argv.warning,
                                         argv.critical)
                  IN  IF LabelError(chain) # NoExc
                      THEN /\ exc' = LabelError(chain)
                           /\ pc' = "except"
                           /\ out' = out
                      ELSE /\ out' = [label |-> SuccessLabel(chain),
                                      state |-> status, lines |-> <<>>,
                                      perfdata |-> <<[key |-> "time_seconds",
                                                      value |-> time_seconds]>>,
                                      site |-> "success"]
                           /\ pc' = "output"
                           /\ exc' = exc
  /\ UNCHANGED <<argv, init_time, deadline, result, printed, exitCode,
                 alarmAt, fetchStart, fetchEnd, mainAt>>

\* output(): builds the line and prints it.
Output_print ==
  /\ pc = "output"
  /\ \E d \in ShortDurs : Completes(now + d) /\ now' = now + d
  /\ printed' = Append(printed, Line(out))
  /\ pc' = "sys_exit"
  /\ UNCHANGED <<argv, init_time, deadline, result, exc, out, exitCode,
                 alarmAt, fetchStart, fetchEnd, parsed, mainAt>>

\* output(): sys.exit(state) raises SystemExit(state).  Raised inside the
\* try block it reaches "except SystemExit"; raised by the call in the bare
\* except clause it ends the process with that status.
Sys_exit ==
  /\ pc = "sys_exit"
  /\ \E d \in ShortDurs : Completes(now + d) /\ now' = now + d
  /\ IF InTry
     THEN pc' = "except_SystemExit" /\ exitCode' = exitCode
     ELSE pc' = "done" /\ exitCode' = out.state
  /\ UNCHANGED <<argv, init_time, deadline, result, exc, out, printed,
                 alarmAt, fetchStart, fetchEnd, parsed, mainAt>>

\* __main__: "except SystemExit: pass", then the script ends.
Except_SystemExit ==
  /\ pc = "except_SystemExit"
  /\ \E d \in ShortDurs : Completes(now + d) /\ now' = now + d
  /\ pc' = "done"
  /\ exitCode' = 0
  /\ UNCHANGED <<argv, init_time, deadline, result, exc, out, printed,
                 alarmAt, fetchStart, fetchEnd, parsed, mainAt>>

\* Except_all reporting the error as UNKNOWN.
Except_all_unknown ==
  /\ pc = "except"
  /\ \E d \in ShortDurs : Completes(now + d) /\ now' = now + d
  /\ out' = [label |-> "Error: " \o ExcInfo(exc), state |-> 3, lines |-> <<>>,
             perfdata |-> <<>>, site |-> "error"]
  /\ pc' = "output"
  /\ UNCHANGED <<argv, init_time, deadline, result, exc, printed, exitCode,
                 alarmAt, fetchStart, fetchEnd, parsed, mainAt>>

\* __main__: the bare except, up to its call of output.
Except_all ==
  /\ pc = "except"
  /\ \E d \in ShortDurs : Completes(now + d) /\ now' = now + d
  /\ out' = [label |-> "Error: " \o ExcInfo(exc), state |-> 2, lines |-> <<>>,
             perfdata |-> <<>>, site |-> "error"]
  /\ pc' = "output"
  /\ UNCHANGED <<argv, init_time, deadline, result, exc, printed, exitCode,
                 alarmAt, fetchStart, fetchEnd, parsed, mainAt>>

\* The step in progress at position p can last until the deadline: a
\* network operation may never return, the other steps take at most the
\* longest duration drawn for them.
ReachesDeadline(p) ==
  \/ p \in {"getclient", "getcertificate"}
  \/ p = "check" /\ \E d \in StepDurs : now + d >= deadline
  \/ /\ p \in {"output", "sys_exit", "except", "except_SystemExit"}
     /\ \E d \in ShortDurs : now + d >= deadline

\* handle_sigalrm(signum, frame, timeout=args.timeout+5): runs in the main
\* thread on top of the interrupted step, calls output(..., 3), whose
\* SystemExit(3) then propagates from the interrupted position.
Handle_sigalrm ==
  /\ deadline # NoTime
  /\ alarmAt = ""
  /\ ReachesDeadline(pc)
  /\ now' = deadline
  /\ alarmAt' = pc
  /\ printed' = Append(printed,
       Line([label |-> "Plugin timed out after "
                         \o ToString(argv.timeout + Slack) \o " seconds",
             state |-> 3, lines |-> <<>>, perfdata |-> <<>>,
             site |-> "timeout"]))
  /\ IF InTry
     THEN pc' = "except_SystemExit" /\ exitCode' = exitCode
     ELSE pc' = "done" /\ exitCode' = 3
  /\ UNCHANGED <<argv, init_time, deadline, result, exc, out, fetchStart,
                 fetchEnd, parsed, mainAt>>

Next ==
  \/ Main_time
  \/ Args_parse
  \/ Signal_alarm
  \/ Getclient
  \/ Getcertificate
  \/ Check
  \/ Output_print
  \/ Sys_exit
  \/ Except_SystemExit
  \/ Except_all
  \/ Handle_sigalrm

Spec == Init /\ [][Next]_vars

(* ------------------------------ properties ----------------------------- *)

StartsWith(s, t) == Len(t) <= Len(s) /\ SubSeq(s, 1, Len(t)) = t

Contains(s, t) ==
  \E i \in 1..(Len(s) - Len(t) + 1) : SubSeq(s, i, i + Len(t) - 1) = t

Done == pc = "done"

TimeoutText ==
  "UNKNOWN - scmd: Plugin timed out after " \o ToString(argv.timeout + Slack)
    \o " seconds"

\* The fetch returned a bundle of exactly three loadable certificates that
\* all carry a common name.
GoodBundle ==
  /\ fetchEnd # NoTime
  /\ ~result.none
  /\ Len(result.pem) = 3
  /\ \A i \in 1..3 : result.pem[i].loadable /\ result.pem[i].cn # None

\* The lines printed by the success path of check().
SuccessLines == {i \in 1..Len(printed) : printed[i].site = "success"}

\* C1: in every run that prints a status line, the process ends with the
\* exit code equal to the status level of that line (the last line printed).
C1_ExitCodeIsStatus ==
  (Done /\ printed # <<>>) => exitCode = printed[Len(printed)].state

C3_HungFetchExitsUnknown ==
  (Done /\ alarmAt = "getcertificate") =>
    /\ Len(printed) = 1
    /\ printed[1].text = TimeoutText
    /\ printed[1].perfdata = <<>>
    /\ exitCode = 3

\* C4: when the fetch returns None, the run prints one CRITICAL line of the
\* form "CRITICAL - scmd: <fixed message>" without a performance block, the
\* exit code is 2, and nothing is parsed or evaluated.
C4_EmptyResult ==
  (Done /\ fetchEnd # NoTime /\ result.none /\ alarmAt = "") =>
    /\ Len(printed) = 1
    /\ printed[1].site = "empty"
    /\ StartsWith(printed[1].text, "CRITICAL - scmd: ")
    /\ ~Contains(printed[1].text, "|")
    /\ parsed = NoTime
    /\ exitCode = 2

\* C5: with warning <= critical, the level of a success report is 2 when
\* elapsed > critical, 1 when warning < elapsed <= critical and 0 when
\* elapsed <= warning, elapsed being the reported time_seconds.
C5_StrictThresholds ==
  \A i \in SuccessLines :
    LET elapsed == printed[i].perfdata[1].value
        warning == argv.warning * UnitsPerSecond
        critical == argv.critical * UnitsPerSecond
    IN  warning <= critical =>
          /\ elapsed > critical => printed[i].state = 2
          /\ (warning < elapsed /\ elapsed <= critical) => printed[i].state = 1
          /\ elapsed <= warning => printed[i].state = 0

\* A success report whose elapsed time equals the warning threshold, below
\* the critical one, has level OK.
C5_Witness ==
  \E i \in SuccessLines :
    /\ argv.warning < argv.critical
    /\ printed[i].perfdata[1].value = argv.warning * UnitsPerSecond
    /\ printed[i].state = 0

\* C6: a success report is the line '<LEVELNAME> - scmd: Certificado emitido
\* para "s0" pela Entidade de Certificacao "s2" na hierarquia do "s1"
\* |'time_seconds'=<elapsed>' for the blocks s0, s1, s2 of the bundle in
\* order, with the level computed from elapsed; a run on a bundle of three
\* good blocks that no deadline interrupts prints that line and no other.
C6_SuccessLine ==
  /\ \A i \in SuccessLines :
       LET elapsed == printed[i].perfdata[1].value
           level == IF elapsed > argv.critical * UnitsPerSecond THEN "CRITICAL"
                    ELSE IF elapsed > argv.warning * UnitsPerSecond
                    THEN "WARNING" ELSE "OK"
       IN  /\ Len(result.pem) >= 3
           /\ printed[i].text =
                level \o " - scmd: Certificado emitido para \""
                  \o result.pem[1].cn
                  \o "\" pela Entidade de Certificacao \"" \o result.pem[3].cn
                  \o "\" na hierarquia do \"" \o result.pem[2].cn
                  \o "\"|'time_seconds'=" \o StrFloat(elapsed)
           /\ (result.pem = Canon(3) /\ elapsed = 2 * UnitsPerSecond
                 /\ printed[i].state = 0) =>
                printed[i].text =
                  "OK - scmd: Certificado emitido para \"Jane Doe\" pela Entidade de Certificacao \"ISSUING CA\" na hierarquia do \"ROOT CA\"|'time_seconds'=2.0"
  /\ (Done /\ GoodBundle /\ alarmAt = "") =>
       Len(printed) = 1 /\ SuccessLines = {1}

\* The bundle "Jane Doe" / "ROOT CA" / "ISSUING CA" fetched in 2 seconds has
\* been reported as OK.
C6_Witness ==
  /\ Done
  /\ GoodBundle
  /\ result.pem = Canon(3)
  /\ Len(printed) = 1
  /\ printed[1].site = "success"
  /\ printed[1].state = 0
  /\ printed[1].perfdata[1].value = 2 * UnitsPerSecond

\* C7: a printed line carries the "|'time_seconds'=" block exactly when it
\* is the success report, which is printed only after the fetch returned a
\* bundle that was parsed.
C7_PerfdataOnlyOnSuccess ==
  \A i \in 1..Len(printed) :
    /\ Contains(printed[i].text, "|") <=> printed[i].site = "success"
    /\ Contains(printed[i].text, "|'time_seconds'=")
         <=> printed[i].site = "success"
    /\ printed[i].site = "success" =>
         /\ fetchEnd # NoTime
         /\ parsed # NoTime
         /\ LoadError(result.pem) = NoExc

\* A success report and a timeout report have been printed in the same run.
C7_Witness ==
  /\ Len(printed) = 2
  /\ printed[1].site = "success"
  /\ printed[2].site = "timeout"

\* C8: in every run in which handle_sigalrm runs, the timeout line is the
\* only status line printed.
C8_DeadlineWins ==
  alarmAt # "" => (Len(printed) = 1 /\ printed[1].text = TimeoutText)

\* C9, as stated: the reported elapsed time is the duration of the fetch
\* call alone, from just before it to just after it returns.
C9_ElapsedIsFetchTime ==
  \A i \in SuccessLines :
    printed[i].perfdata[1].value \in Round5(fetchEnd - fetchStart)

\* C9, amended: the reported elapsed time is the duration, rounded to five
\* decimals, from the entry of main() to the moment check() has loaded the
\* three certificates; it covers argument parsing, client construction, the
\* fetch and the parsing.
C9_ElapsedIsRunTime ==
  \A i \in SuccessLines :
    /\ printed[i].perfdata[1].value \in Round5(parsed - mainAt)
    /\ mainAt <= fetchStart
    /\ fetchEnd <= parsed

\* A success report whose elapsed time is not the duration of the fetch.
C9_Witness ==
  \E i \in SuccessLines :
    /\ printed[i].perfdata[1].value \notin Round5(fetchEnd - fetchStart)
    /\ mainAt < fetchStart
    /\ fetchEnd < parsed

\* C10: the deadline never aborts a GetCertificate call before the client
\* timeout of that call (timeoutSeconds after its start) is due: a call that
\* exceeds the client timeout fails through the error path first.
C10_ClientTimeoutFirst ==
  alarmAt = "getcertificate" => fetchStart + argv.timeout * TPS <= deadline

====
